---- MODULE Spec2Model ----
(***************************************************************************)
(* Preprocessing of src/config/mpich2.h inside one compilation unit.       *)
(*                                                                         *)
(* A compilation unit starts with the macros the toolchain and the MPI     *)
(* headers defined (MS_WINDOWS, MPICH2_NUMVERSION, ROMIO_VERSION) and      *)
(* then includes mpich2.h some number of times.  The header is processed   *)
(* one line at a time, with the usual stack of conditional groups.         *)
(* The variables are indexed by compilation unit so that two builds can    *)
(* be compared (SpecPair).                                                 *)
(***************************************************************************)
EXTENDS Integers, Sequences, FiniteSets, TLC

VARIABLES macros, macros0, pc, ifstack, included, nIncl, defineCount

vars == <<macros, macros0, pc, ifstack, included, nIncl, defineCount>>

\* ---- bounds ----
MaxIncludes == 2
VersionSpread == 1

\* ---- the text of mpich2.h ----
Threshold == 10100000

GUARD == "PyMPI_CONFIG_MPICH2_H"
MS_WINDOWS == "MS_WINDOWS"
MPICH2_NUMVERSION == "MPICH2_NUMVERSION"
ROMIO_VERSION == "ROMIO_VERSION"
F90_INTEGER == "PyMPI_MISSING_MPI_TYPE_CREATE_F90_INTEGER"
F90_REAL == "PyMPI_MISSING_MPI_TYPE_CREATE_F90_REAL"
F90_COMPLEX == "PyMPI_MISSING_MPI_TYPE_CREATE_F90_COMPLEX"
MPICH2IO_H == "mpich2io.h"

Flags == {F90_INTEGER, F90_REAL, F90_COMPLEX}
InputMacros == {MS_WINDOWS, MPICH2_NUMVERSION, ROMIO_VERSION}
MacroNames == {GUARD} \cup InputMacros \cup Flags

L(op, name, body) == [op |-> op, name |-> name, body |-> body]

Mpich2H ==
  << L("ifndef",  GUARD, <<>>),
     L("define",  GUARD, <<>>),
     L("blank",   "", <<>>),
     L("ifdef",   MS_WINDOWS, <<>>),
     L("if",      MPICH2_NUMVERSION, <<>>),
     L("define",  F90_INTEGER, <<1>>),
     L("define",  F90_REAL, <<1>>),
     L("define",  F90_COMPLEX, <<1>>),
     L("endif",   "", <<>>),
     L("endif",   "", <<>>),
     L("blank",   "", <<>>),
     L("ifndef",  ROMIO_VERSION, <<>>),
     L("include", MPICH2IO_H, <<>>),
     L("endif",   "", <<>>),
     L("blank",   "", <<>>),
     L("endif",   "", <<>>) >>

BlankLine == L("blank", "", <<>>)
Blanked(h, S) == [i \in 1..Len(h) |-> IF i \in S THEN BlankLine ELSE h[i]]

\* variants of the header, each with one slip
HeaderNoVersionCheck == Blanked(Mpich2H, {5, 9})
HeaderNoPlatformGuard == Blanked(Mpich2H, {4, 10})
HeaderIfdefRomio == [Mpich2H EXCEPT ![12] = L("ifdef", ROMIO_VERSION, <<>>)]
HeaderNoIncludeGuard == Blanked(Mpich2H, {1, 2, 16})
HeaderGuardNotDefined == Blanked(Mpich2H, {2})
HeaderIncludeInsidePlatform ==
  [Mpich2H EXCEPT ![10] = BlankLine, ![15] = L("endif", "", <<>>)]

\* the file the compilation unit includes
Header == Mpich2H

EOF_PC == Len(Header) + 1

\* ---- macro tables ----
Undefined == [def |-> FALSE, body |-> <<>>]
Macro(body) == [def |-> TRUE, body |-> body]

Defined(m, name) == m[name].def

\* an identifier that is not a macro evaluates to 0 in an #if expression
Value(m, name) == IF m[name].def THEN m[name].body[1] ELSE 0

VersionCondLE(m) ==
  ~Defined(m, MPICH2_NUMVERSION) \/ (Value(m, MPICH2_NUMVERSION) <= Threshold)

VersionCondRequireDefined(m) ==
  Defined(m, MPICH2_NUMVERSION) /\ (Value(m, MPICH2_NUMVERSION) < Threshold)

\* line 5: !defined(MPICH2_NUMVERSION) || (MPICH2_NUMVERSION < 10100000)
VersionCond(m) ==
  ~Defined(m, MPICH2_NUMVERSION) \/ (Value(m, MPICH2_NUMVERSION) < Threshold)

DefineMacroNoBody(m, name, body) == [m EXCEPT ![name] = Macro(<<>>)]

DefineMacro(m, name, body) == [m EXCEPT ![name] = Macro(body)]

\* a line is processed only if every enclosing conditional group is taken
Active(stack) == \A i \in 1..Len(stack) : stack[i]

Push(stack, taken) == Append(stack, Active(stack) /\ taken)
Pop(stack) == SubSeq(stack, 1, Len(stack) - 1)

\* ---- initial macro state of a compilation unit ----
Versions == {-1, 0} \cup ((Threshold - VersionSpread)..(Threshold + VersionSpread))
RomioVersions == {126}

InitMacros ==
  { [n \in MacroNames |->
        IF n = MS_WINDOWS THEN (IF ms THEN Macro(<<>>) ELSE Undefined)
        ELSE IF n = MPICH2_NUMVERSION THEN ver
        ELSE IF n = ROMIO_VERSION THEN rom
        ELSE Undefined] :
      ms \in BOOLEAN,
      ver \in {Undefined} \cup {Macro(<<v>>) : v \in Versions},
      rom \in {Undefined} \cup {Macro(<<v>>) : v \in RomioVersions} }

InitUnits(U) ==
  /\ macros \in [U -> InitMacros]
  /\ macros0 = macros
  /\ pc = [u \in U |-> 0]
  /\ ifstack = [u \in U |-> <<>>]
  /\ included = [u \in U |-> <<>>]
  /\ nIncl = [u \in U |-> 0]
  /\ defineCount = [u \in U |-> [n \in MacroNames |-> 0]]

Init == InitUnits({1})
InitPair == InitUnits({1, 2})

Units == DOMAIN pc

InHeader(u) == pc[u] \in 1..Len(Header)
Line(u) == Header[pc[u]]

\* ---- actions ----
\* the compilation unit reaches a line  #include "mpich2.h"
IncludeMpich2(u) ==
  /\ pc[u] = 0
  /\ nIncl[u] < MaxIncludes
  /\ pc' = [pc EXCEPT ![u] = 1]
  /\ nIncl' = [nIncl EXCEPT ![u] = @ + 1]
  /\ UNCHANGED <<macros, macros0, ifstack, included, defineCount>>

Ifndef(u) ==
  /\ InHeader(u)
  /\ Line(u).op = "ifndef"
  /\ ifstack' = [ifstack EXCEPT ![u] = Push(@, ~Defined(macros[u], Line(u).name))]
  /\ pc' = [pc EXCEPT ![u] = @ + 1]
  /\ UNCHANGED <<macros, macros0, included, nIncl, defineCount>>

Ifdef(u) ==
  /\ InHeader(u)
  /\ Line(u).op = "ifdef"
  /\ ifstack' = [ifstack EXCEPT ![u] = Push(@, Defined(macros[u], Line(u).name))]
  /\ pc' = [pc EXCEPT ![u] = @ + 1]
  /\ UNCHANGED <<macros, macros0, included, nIncl, defineCount>>

\* the expression of an #if in a skipped group is not evaluated
If(u) ==
  /\ InHeader(u)
  /\ Line(u).op = "if"
  /\ ifstack' = [ifstack EXCEPT ![u] =
                   IF Active(@) THEN Push(@, VersionCond(macros[u]))
                                ELSE Push(@, FALSE)]
  /\ pc' = [pc EXCEPT ![u] = @ + 1]
  /\ UNCHANGED <<macros, macros0, included, nIncl, defineCount>>

Define(u) ==
  /\ InHeader(u)
  /\ Line(u).op = "define"
  /\ IF Active(ifstack[u])
       THEN /\ macros' = [macros EXCEPT ![u] = DefineMacro(@, Line(u).name, Line(u).body)]
            /\ defineCount' = [defineCount EXCEPT ![u][Line(u).name] = @ + 1]
       ELSE UNCHANGED <<macros, defineCount>>
  /\ pc' = [pc EXCEPT ![u] = @ + 1]
  /\ UNCHANGED <<macros0, ifstack, included, nIncl>>

Include(u) ==
  /\ InHeader(u)
  /\ Line(u).op = "include"
  /\ included' = [included EXCEPT ![u] =
                    IF Active(ifstack[u]) THEN Append(@, Line(u).name) ELSE @]
  /\ pc' = [pc EXCEPT ![u] = @ + 1]
  /\ UNCHANGED <<macros, macros0, ifstack, nIncl, defineCount>>

Endif(u) ==
  /\ InHeader(u)
  /\ Line(u).op = "endif"
  /\ ifstack[u] # <<>>
  /\ ifstack' = [ifstack EXCEPT ![u] = Pop(@)]
  /\ pc' = [pc EXCEPT ![u] = @ + 1]
  /\ UNCHANGED <<macros, macros0, included, nIncl, defineCount>>

Blank(u) ==
  /\ InHeader(u)
  /\ Line(u).op = "blank"
  /\ pc' = [pc EXCEPT ![u] = @ + 1]
  /\ UNCHANGED <<macros, macros0, ifstack, included, nIncl, defineCount>>

\* end of mpich2.h: back to the including file
EndOfHeader(u) ==
  /\ pc[u] = EOF_PC
  /\ ifstack[u] = <<>>
  /\ pc' = [pc EXCEPT ![u] = 0]
  /\ UNCHANGED <<macros, macros0, ifstack, included, nIncl, defineCount>>

Next ==
  \/ \E u \in Units : IncludeMpich2(u)
  \/ \E u \in Units : Ifndef(u)
  \/ \E u \in Units : Ifdef(u)
  \/ \E u \in Units : If(u)
  \/ \E u \in Units : Define(u)
  \/ \E u \in Units : Include(u)
  \/ \E u \in Units : Endif(u)
  \/ \E u \in Units : Blank(u)
  \/ \E u \in Units : EndOfHeader(u)

Spec == Init /\ [][Next]_vars
SpecPair == InitPair /\ [][Next]_vars

\* ---- properties ----
Processed(u) == pc[u] = 0 /\ nIncl[u] >= 1

\* the conditions on the macros the unit started with
Platform0(u) == macros0[u][MS_WINDOWS].def
VersionKnown0(u) == macros0[u][MPICH2_NUMVERSION].def
Version0(u) == macros0[u][MPICH2_NUMVERSION].body[1]
Below0(u) == ~VersionKnown0(u) \/ Version0(u) < Threshold
Romio0(u) == macros0[u][ROMIO_VERSION].def

AllFlags(u) == \A f \in Flags : macros[u][f].def
NoFlags(u) == \A f \in Flags : ~macros[u][f].def

\* C1: once mpich2.h has been processed, each of the three
\* PyMPI_MISSING_MPI_TYPE_CREATE_F90_* macros is defined if and only if
\* MS_WINDOWS was defined and MPICH2_NUMVERSION was undefined or below
\* 10100000; so the three are all defined exactly in that case.
C1_FlagsIffPlatformAndVersion ==
  \A u \in Units : Processed(u) =>
    /\ \A f \in Flags : macros[u][f].def <=> (Platform0(u) /\ Below0(u))
    /\ AllFlags(u) <=> (Platform0(u) /\ Below0(u))

C1_Witness ==
  \E u \in Units :
    /\ Processed(u) /\ Platform0(u)
    /\ VersionKnown0(u) /\ Version0(u) < Threshold
    /\ AllFlags(u)

\* C2: with MS_WINDOWS defined and MPICH2_NUMVERSION >= 10100000 (the
\* boundary value included) none of the three markers is ever defined.
C2_NoFlagsAtOrAboveThreshold ==
  \A u \in Units :
    (Platform0(u) /\ VersionKnown0(u) /\ Version0(u) >= Threshold) => NoFlags(u)

C2_Witness ==
  \E u \in Units :
    /\ Processed(u) /\ Platform0(u)
    /\ VersionKnown0(u) /\ Version0(u) = Threshold
    /\ NoFlags(u)

\* C3: without MS_WINDOWS none of the three markers is ever defined,
\* whatever MPICH2_NUMVERSION is.
C3_NoFlagsOffPlatform ==
  \A u \in Units : ~Platform0(u) => NoFlags(u)

C3_Witness ==
  \E u \in Units :
    /\ Processed(u) /\ ~Platform0(u)
    /\ VersionKnown0(u) /\ Version0(u) < Threshold
    /\ NoFlags(u)

\* C4: with MS_WINDOWS defined and MPICH2_NUMVERSION undefined, processing
\* mpich2.h defines all three markers, each as 1.
C4_UndefinedVersionCountsAsOld ==
  \A u \in Units :
    (Processed(u) /\ Platform0(u) /\ ~VersionKnown0(u)) =>
       \A f \in Flags : macros[u][f] = Macro(<<1>>)

C4_Witness ==
  \E u \in Units :
    /\ Processed(u) /\ Platform0(u) /\ ~VersionKnown0(u)
    /\ AllFlags(u)

\* C5: if ROMIO_VERSION was defined before mpich2.h is processed, mpich2.h
\* never includes mpich2io.h, however often mpich2.h is included.
C5_NoIncludeWhenRomioDefined ==
  \A u \in Units : Romio0(u) => included[u] = <<>>

C5_Witness ==
  \E u \in Units :
    /\ Processed(u) /\ nIncl[u] >= 2 /\ Romio0(u)
    /\ included[u] = <<>>

\* C6: if ROMIO_VERSION was not defined, mpich2io.h is included exactly
\* once: it is there when the first inclusion of mpich2.h ends, and no
\* later inclusion adds another.
C6_IncludedExactlyOnce ==
  \A u \in Units : ~Romio0(u) =>
    /\ Len(included[u]) <= 1
    /\ Processed(u) => included[u] = <<MPICH2IO_H>>

C6_Witness ==
  \E u \in Units :
    /\ Processed(u) /\ nIncl[u] >= 2 /\ ~Romio0(u)
    /\ included[u] = <<MPICH2IO_H>>

\* C7: a second or later inclusion of mpich2.h changes neither the macros
\* nor the list of files included, and no macro of the header is ever
\* defined a second time.
C7_LaterInclusionsAreNoOps ==
  /\ [][\A u \in Units :
          (nIncl[u] >= 1 /\ nIncl'[u] >= 2) =>
             (macros'[u] = macros[u] /\ included'[u] = included[u])]_vars
  /\ [](\A u \in Units : \A n \in MacroNames : defineCount[u][n] <= 1)

C7_Witness ==
  \E u \in Units :
    /\ Processed(u) /\ nIncl[u] >= 2
    /\ AllFlags(u)
    /\ \A f \in Flags : defineCount[u][f] = 1

\* C8: two builds whose ROMIO_VERSION agree include the same files, and two
\* builds whose MS_WINDOWS and MPICH2_NUMVERSION agree end with the same
\* three markers, whatever the inputs of the other guard are.
C8_GuardsIndependent ==
  \A u, v \in Units : (Processed(u) /\ Processed(v)) =>
    /\ (macros0[u][ROMIO_VERSION] = macros0[v][ROMIO_VERSION])
          => included[u] = included[v]
    /\ (/\ macros0[u][MS_WINDOWS] = macros0[v][MS_WINDOWS]
        /\ macros0[u][MPICH2_NUMVERSION] = macros0[v][MPICH2_NUMVERSION])
          => \A f \in Flags : macros[u][f] = macros[v][f]

C8_Witness ==
  \E u, v \in Units :
    /\ Processed(u) /\ Processed(v)
    /\ ~Romio0(u) /\ ~Romio0(v)
    /\ Platform0(u) /\ ~Platform0(v)
    /\ AllFlags(u) /\ NoFlags(v)
    /\ included[u] = <<MPICH2IO_H>> /\ included[v] = <<MPICH2IO_H>>

\* C9: no step of the header changes MS_WINDOWS, MPICH2_NUMVERSION or
\* ROMIO_VERSION; a step that changes a macro defines the include guard or,
\* when the platform and version conditions hold, one of the three markers
\* as 1; no step undefines a macro.
C9_InputsReadOnly ==
  [][\A u \in Units :
       /\ \A n \in InputMacros : macros'[u][n] = macros[u][n]
       /\ \A n \in MacroNames :
            /\ macros[u][n].def => macros'[u][n].def
            /\ macros'[u][n] # macros[u][n] =>
                 \/ n = GUARD /\ macros'[u][n].def
                 \/ /\ n \in Flags
                    /\ macros'[u][n] = Macro(<<1>>)
                    /\ Platform0(u) /\ Below0(u)]_vars

C9_Witness ==
  \E u \in Units :
    /\ Processed(u)
    /\ AllFlags(u) /\ macros[u][GUARD].def
    /\ \A n \in InputMacros : macros[u][n] = macros0[u][n]
    /\ Romio0(u)
====
